---- MODULE Spec2Model ----
(***************************************************************************)
(* The first-come-first-served event server of src/server.js: an express   *)
(* application whose handlers read and rewrite two JSON documents,         *)
(* data/winners.json and data/logs.json.  A handler runs on the node event *)
(* loop: it is atomic between two awaits, and every await is a file        *)
(* operation that other handlers' steps may precede or follow.             *)
(***************************************************************************)
EXTENDS Integers, Sequences, FiniteSets, TLC

VARIABLES
    fs,         \* the two files of DATA_DIR: what is on disk
    h,          \* the handlers in flight, one per slot: position and locals
    clock,      \* the server's millisecond clock, as last read
    calls,      \* requests received so far
    responses,  \* history: the responses sent
    attempts,   \* history: the accessLog objects built, in creation order
    committed,  \* history: the last document each writeFile completed
    wiped,      \* history: what answered visits had stored when reset arrived
    faultLimit, \* how many file operations the run lets fail
    faults,     \* history: file operations that have failed
    resets,     \* history: reset requests received
    restarts    \* history: process restarts

vars == <<fs, h, clock, calls, responses, attempts, committed, wiped,
          faultLimit, faults, resets, restarts>>

----------------------------------------------------------------------------
(* Bounds of the model *)

\* handlers in flight at once
MaxSlots == 2
\* requests received in one run of Spec and of SpecFail
MaxCalls == 3
\* requests received in one run of SpecFull, after the visits that filled
\* the log
FullCalls == 2
\* last value of the millisecond clock
MaxClock == 2
\* file operations that may fail in one run of SpecFail and of SpecSeq
MaxFaults == 1
\* process restarts in one run
MaxRestarts == 1
\* entries the log keeps: server.js keeps 1000 (lines 133-134); the model
\* keeps LogCap, and every statement about the bound is made in terms of it
LogCap == 3
\* entries GET /api/admin/logs returns: server.js returns 100 (line 170)
RecentCap == 2

Slots == 1..MaxSlots

----------------------------------------------------------------------------
(* The catalog and JavaScript's property lookup *)

LOCATIONS ==
    [ gangnam    |-> [name |-> "Gangnam",    prize |-> "americano"],
      hongdae    |-> [name |-> "Hongdae",    prize |-> "cake"],
      myeongdong |-> [name |-> "Myeongdong", prize |-> "icecream"],
      itaewon    |-> [name |-> "Itaewon",    prize |-> "coffee"],
      jamsil     |-> [name |-> "Jamsil",     prize |-> "drink"] ]

\* LOCATIONS, the parsed winners document and the default {} are plain
\* objects: obj[key] also finds what they inherit from Object.prototype.
ObjectPrototype ==
    {"toString", "constructor", "valueOf", "hasOwnProperty", "__proto__"}

\* the locationId values requests carry: two catalog keys, an inherited
\* property name and a name found nowhere
RequestIds == {"gangnam", "hongdae", "toString", "nowhere"}

Undefined == [undefined |-> TRUE]
Null == [null |-> TRUE]

\* !!obj[key]: an own entry (a record, truthy) or an inherited function
Truthy(obj, key) == key \in DOMAIN obj \/ key \in ObjectPrototype

\* obj[key].timestamp in the place of obj[key].accessTime
TimestampOf(obj, key) ==
    IF key \in DOMAIN obj THEN obj[key].timestamp ELSE Undefined

\* obj[key].accessTime: a function object has no accessTime
AccessTimeOf(obj, key) ==
    IF key \in DOMAIN obj THEN obj[key].accessTime ELSE Undefined

\* obj[key] = value
SetProp(obj, key, value) ==
    [k \in DOMAIN obj \cup {key} |-> IF k = key THEN value ELSE obj[k]]

EmptyObject == [k \in {} |-> Null]

----------------------------------------------------------------------------
(* The files, loadData and saveData *)

WINNERS_FILE == "winners.json"
LOGS_FILE == "logs.json"
Files == {WINNERS_FILE, LOGS_FILE}

\* a file is absent (ensureDataDir makes only the directory), empty
\* (opened with flag 'w', nothing written yet) or holds a JSON text
Absent == [state |-> "absent", text |-> <<>>]
Truncated == [state |-> "empty", text |-> <<>>]

\* JSON.stringify(data, null, 2) and JSON.parse
JSONstringify(data) == <<"json", data>>
JSONparse(text) == text[2]
Parses(file) == file.state = "text" /\ Len(file.text) = 2 /\ file.text[1] = "json"

\* loadData: readFile and JSON.parse, the default on any error
loadData(file, defaultValue, readFails) ==
    IF readFails \/ ~Parses(file) THEN defaultValue ELSE JSONparse(file.text)

\* the length of a text, counted in entries of the document it holds
Size(text) == IF text[1] = "json" THEN Cardinality(DOMAIN text[2]) ELSE text[2]

\* saveData, first half: writeFile opens the file with flag 'w', which
\* empties it; an open that fails leaves the file as it was
OpenForWrite(file, openFails) == IF openFails THEN file ELSE Truncated

\* saveData, second half: writeFile writes the text from offset 0 of its own
\* descriptor.  Over a longer text another writer put there meanwhile the
\* tail of that text stays, and the result is no JSON.  A write that fails
\* leaves the file as it was.
WriteText(file, data, writeFails) ==
    LET text == JSONstringify(data)
    IN  IF writeFails THEN file
        ELSE IF file.state = "text" /\ Size(file.text) > Size(text)
        THEN [state |-> "text", text |-> <<"garbage", Size(file.text)>>]
        ELSE [state |-> "text", text |-> text]

\* whether a file operation may fail at this step
FaultChoices == IF faults < faultLimit THEN {FALSE, TRUE} ELSE {FALSE}

\* PushLog with the splice taken from the wrong end: the newest entries go
PushLogKeepOldest(logs, entry) ==
    LET pushed == Append(logs, entry)
    IN  IF Len(pushed) > LogCap THEN SubSeq(pushed, 1, LogCap) ELSE pushed

\* PushLog without the splice: the log only grows
PushLogNoSplice(logs, entry) == Append(logs, entry)

\* logs.push(accessLog) and the splice that keeps the last LogCap entries
PushLog(logs, entry) ==
    LET pushed == Append(logs, entry)
    IN  IF Len(pushed) > LogCap
        THEN SubSeq(pushed, Len(pushed) - LogCap + 1, Len(pushed))
        ELSE pushed

----------------------------------------------------------------------------
(* Handlers *)

ToISOString(ms) == [iso |-> ms]

\* what the client of a call reports as accessTime: its own clock, which is
\* not the server's
ClientSkew == 100
ClientTimes(call) == {ToISOString(ClientSkew + call)}

NoLog == [id |-> 0]

Idle ==
    [ pc |-> "idle", call |-> 0, kind |-> "none", locationId |-> "none",
      accessTime |-> Null, winners |-> EmptyObject, logs |-> <<>>,
      accessLog |-> NoLog, isWinner |-> FALSE, winnerTime |-> Null,
      saveFailed |-> {} ]

InFlight(p) == h[p].pc # "idle"
Quiet == \A p \in Slots : ~InFlight(p)

\* a request is taken by the lowest free slot
FreeSlot(p) == ~InFlight(p) /\ \A q \in Slots : q < p => InFlight(q)

\* the state after startServer, with a store that lets `limit` operations fail
Start(limit) ==
    /\ faultLimit = limit
    /\ fs = [f \in Files |-> Absent]
    /\ h = [p \in Slots |-> Idle]
    /\ clock = 1
    /\ calls = 0
    /\ responses = {}
    /\ attempts = <<>>
    /\ committed = [f \in Files |-> <<>>]
    /\ wiped = {}
    /\ faults = 0
    /\ resets = 0
    /\ restarts = 0

Respond(r) == responses' = responses \cup {r}

\* POST /api/participate, to the first await (lines 85-94)
Participate(p, locationId, accessTime) ==
    /\ FreeSlot(p)
    /\ calls' = calls + 1
    /\ IF ~Truthy(LOCATIONS, locationId)
       THEN /\ Respond([call |-> calls + 1, kind |-> "participate",
                        locationId |-> locationId, status |-> 400])
            /\ h' = h
       ELSE /\ h' = [h EXCEPT ![p] =
                        [Idle EXCEPT !.pc = "loadWinners",
                                     !.call = calls + 1,
                                     !.kind = "participate",
                                     !.locationId = locationId,
                                     !.accessTime = accessTime]]
            /\ UNCHANGED responses
    /\ UNCHANGED <<faultLimit, fs, clock, attempts, committed, wiped, faults, resets, restarts>>

\* line 94: the winners document is read
ParticipateLoadWinners(p) ==
    /\ h[p].kind = "participate" /\ h[p].pc = "loadWinners"
    /\ \E readFails \in FaultChoices :
        /\ h' = [h EXCEPT ![p].winners =
                        loadData(fs[WINNERS_FILE], EmptyObject, readFails),
                          ![p].pc = "loadLogs"]
        /\ faults' = faults + (IF readFails THEN 1 ELSE 0)
    /\ UNCHANGED <<faultLimit, fs, clock, calls, responses, attempts, committed, wiped,
                   resets, restarts>>

\* line 95: the log is read
ParticipateLoadLogs(p) ==
    /\ h[p].kind = "participate" /\ h[p].pc = "loadLogs"
    /\ \E readFails \in FaultChoices :
        /\ h' = [h EXCEPT ![p].logs = loadData(fs[LOGS_FILE], <<>>, readFails),
                          ![p].pc = "adjudicate"]
        /\ faults' = faults + (IF readFails THEN 1 ELSE 0)
    /\ UNCHANGED <<faultLimit, fs, clock, calls, responses, attempts, committed, wiped,
                   resets, restarts>>

\* the entry of the log: accessLog with isWinner set (line 129)
LogEntry(accessLog, isWinner) ==
    [ id |-> accessLog.id, locationId |-> accessLog.locationId,
      accessTime |-> accessLog.accessTime, ip |-> accessLog.ip,
      timestamp |-> accessLog.timestamp, isWinner |-> isWinner ]

\* the WinnerRecord: { ...accessLog, winner: true } (lines 113-116)
WinnerRecord(accessLog) ==
    [ id |-> accessLog.id, locationId |-> accessLog.locationId,
      accessTime |-> accessLog.accessTime, ip |-> accessLog.ip,
      timestamp |-> accessLog.timestamp, winner |-> TRUE ]

\* lines 98-126 and, for a visit that does not win, 129-137: the
\* accessLog is built and the snapshot of the winners document decides.
\* Date.now() and new Date() (lines 99 and 104) read the clock in the same
\* synchronous stretch; the clock may have advanced since it was last read.
Adjudicate(p) ==
    /\ h[p].kind = "participate" /\ h[p].pc = "adjudicate"
    /\ \E now \in {clock, clock + 1} :
        /\ now <= MaxClock
        /\ clock' = now
        /\ LET me == h[p]
               accessLog ==
                   [ id |-> now, locationId |-> me.locationId,
                     accessTime |-> me.accessTime, ip |-> me.call,
                     timestamp |-> ToISOString(now) ]
           IN  /\ attempts' = Append(attempts, accessLog)
               /\ IF ~Truthy(me.winners, me.locationId)
                  THEN h' = [h EXCEPT
                        ![p].accessLog = accessLog,
                        ![p].winners = SetProp(me.winners, me.locationId,
                                               WinnerRecord(accessLog)),
                        ![p].isWinner = TRUE,
                        ![p].pc = "openWinners"]
                  ELSE h' = [h EXCEPT
                        ![p].accessLog = accessLog,
                        ![p].winnerTime = AccessTimeOf(me.winners, me.locationId),
                        ![p].logs = PushLog(me.logs, LogEntry(accessLog, FALSE)),
                        ![p].pc = "openLogs"]
    /\ UNCHANGED <<faultLimit, fs, calls, responses, committed, wiped, faults, resets, restarts>>

\* what a participate call answers (lines 139-146)
ParticipateResponse(me) ==
    [ call |-> me.call, kind |-> "participate", locationId |-> me.locationId,
      status |-> 200, isWinner |-> me.isWinner, accessTime |-> me.accessTime,
      winnerTime |-> me.winnerTime, saveFailed |-> me.saveFailed,
      epoch |-> restarts ]

\* line 122, saveData(WINNERS_FILE, winners): the file is opened.  An error
\* is caught inside saveData (lines 53-55) and the handler goes on to 129.
ParticipateOpenWinners(p) ==
    /\ h[p].kind = "participate" /\ h[p].pc = "openWinners"
    /\ \E openFails \in FaultChoices :
        /\ fs' = [fs EXCEPT ![WINNERS_FILE] = OpenForWrite(@, openFails)]
        /\ faults' = faults + (IF openFails THEN 1 ELSE 0)
        /\ IF openFails
           THEN h' = [h EXCEPT
                    ![p].saveFailed = @ \cup {WINNERS_FILE},
                    ![p].logs = PushLog(@, LogEntry(h[p].accessLog, TRUE)),
                    ![p].pc = "openLogs"]
           ELSE h' = [h EXCEPT ![p].pc = "writeWinners"]
    /\ UNCHANGED <<faultLimit, clock, calls, responses, attempts, committed, wiped,
                   resets, restarts>>

\* line 122: the text is written; then lines 129-137 up to the next open
ParticipateWriteWinners(p) ==
    /\ h[p].kind = "participate" /\ h[p].pc = "writeWinners"
    /\ \E writeFails \in FaultChoices :
        /\ fs' = [fs EXCEPT ![WINNERS_FILE] =
                        WriteText(@, h[p].winners, writeFails)]
        /\ faults' = faults + (IF writeFails THEN 1 ELSE 0)
        /\ committed' = IF Parses(fs'[WINNERS_FILE]) /\ ~writeFails
                        THEN [committed EXCEPT ![WINNERS_FILE] = h[p].winners]
                        ELSE committed
        /\ h' = [h EXCEPT
                    ![p].saveFailed = IF writeFails THEN @ \cup {WINNERS_FILE} ELSE @,
                    ![p].logs = PushLog(@, LogEntry(h[p].accessLog, TRUE)),
                    ![p].pc = "openLogs"]
    /\ UNCHANGED <<faultLimit, clock, calls, responses, attempts, wiped, resets, restarts>>

\* ParticipateOpenLogs that takes the call's location out of the winners
\* file again when the log cannot be opened
ParticipateOpenLogsRollback(p) ==
    /\ h[p].kind = "participate" /\ h[p].pc = "openLogs"
    /\ \E openFails \in FaultChoices :
        /\ fs' = IF openFails
                 THEN [fs EXCEPT ![WINNERS_FILE] =
                        WriteText(Truncated,
                                  [k \in DOMAIN h[p].winners \ {h[p].locationId}
                                        |-> h[p].winners[k]],
                                  FALSE)]
                 ELSE [fs EXCEPT ![LOGS_FILE] = OpenForWrite(@, openFails)]
        /\ faults' = faults + (IF openFails THEN 1 ELSE 0)
        /\ IF openFails
           THEN /\ Respond(ParticipateResponse(
                        [h[p] EXCEPT !.saveFailed = @ \cup {LOGS_FILE}]))
                /\ h' = [h EXCEPT ![p] = Idle]
           ELSE /\ h' = [h EXCEPT ![p].pc = "writeLogs"]
                /\ UNCHANGED responses
    /\ UNCHANGED <<faultLimit, clock, calls, attempts, committed, wiped, resets, restarts>>

\* line 137, saveData(LOGS_FILE, logs): the file is opened
ParticipateOpenLogs(p) ==
    /\ h[p].kind = "participate" /\ h[p].pc = "openLogs"
    /\ \E openFails \in FaultChoices :
        /\ fs' = [fs EXCEPT ![LOGS_FILE] = OpenForWrite(@, openFails)]
        /\ faults' = faults + (IF openFails THEN 1 ELSE 0)
        /\ IF openFails
           THEN /\ Respond(ParticipateResponse(
                        [h[p] EXCEPT !.saveFailed = @ \cup {LOGS_FILE}]))
                /\ h' = [h EXCEPT ![p] = Idle]
           ELSE /\ h' = [h EXCEPT ![p].pc = "writeLogs"]
                /\ UNCHANGED responses
    /\ UNCHANGED <<faultLimit, clock, calls, attempts, committed, wiped, resets, restarts>>

\* line 137: the text is written; then the answer (lines 139-146)
ParticipateWriteLogs(p) ==
    /\ h[p].kind = "participate" /\ h[p].pc = "writeLogs"
    /\ \E writeFails \in FaultChoices :
        /\ fs' = [fs EXCEPT ![LOGS_FILE] = WriteText(@, h[p].logs, writeFails)]
        /\ faults' = faults + (IF writeFails THEN 1 ELSE 0)
        /\ committed' = IF Parses(fs'[LOGS_FILE]) /\ ~writeFails
                        THEN [committed EXCEPT ![LOGS_FILE] = h[p].logs]
                        ELSE committed
        /\ Respond(ParticipateResponse(
                [h[p] EXCEPT !.saveFailed =
                    IF writeFails THEN @ \cup {LOGS_FILE} ELSE @]))
        /\ h' = [h EXCEPT ![p] = Idle]
    /\ UNCHANGED <<faultLimit, clock, calls, attempts, wiped, resets, restarts>>

----------------------------------------------------------------------------
(* POST /api/admin/reset (lines 182-193).  saveData catches every error, so
   the handler's own catch (lines 189-192) is never entered. *)

\* the source addresses of what the two files hold
StoredIps ==
    LET winners == loadData(fs[WINNERS_FILE], EmptyObject, FALSE)
        logs == loadData(fs[LOGS_FILE], <<>>, FALSE)
    IN  {winners[k].ip : k \in DOMAIN winners} \cup {logs[i].ip : i \in DOMAIN logs}

\* the calls that have been answered
Answered == {r.call : r \in responses}

Reset(p) ==
    /\ FreeSlot(p)
    /\ calls' = calls + 1
    /\ resets' = resets + 1
    /\ wiped' = StoredIps \cap Answered
    /\ h' = [h EXCEPT ![p] = [Idle EXCEPT !.pc = "openWinners",
                                          !.call = calls + 1,
                                          !.kind = "reset"]]
    /\ UNCHANGED <<faultLimit, fs, clock, responses, attempts, committed, faults, restarts>>

\* line 184, saveData(WINNERS_FILE, {}): the file is opened
ResetOpenWinners(p) ==
    /\ h[p].kind = "reset" /\ h[p].pc = "openWinners"
    /\ \E openFails \in FaultChoices :
        /\ fs' = [fs EXCEPT ![WINNERS_FILE] = OpenForWrite(@, openFails)]
        /\ faults' = faults + (IF openFails THEN 1 ELSE 0)
        /\ h' = [h EXCEPT
                    ![p].saveFailed = IF openFails THEN @ \cup {WINNERS_FILE} ELSE @,
                    ![p].pc = IF openFails THEN "openLogs" ELSE "writeWinners"]
    /\ UNCHANGED <<faultLimit, clock, calls, responses, attempts, committed, wiped,
                   resets, restarts>>

\* line 184: the text {} is written
ResetWriteWinners(p) ==
    /\ h[p].kind = "reset" /\ h[p].pc = "writeWinners"
    /\ \E writeFails \in FaultChoices :
        /\ fs' = [fs EXCEPT ![WINNERS_FILE] = WriteText(@, EmptyObject, writeFails)]
        /\ faults' = faults + (IF writeFails THEN 1 ELSE 0)
        /\ committed' = IF Parses(fs'[WINNERS_FILE]) /\ ~writeFails
                        THEN [committed EXCEPT ![WINNERS_FILE] = EmptyObject]
                        ELSE committed
        /\ h' = [h EXCEPT
                    ![p].saveFailed = IF writeFails THEN @ \cup {WINNERS_FILE} ELSE @,
                    ![p].pc = "openLogs"]
    /\ UNCHANGED <<faultLimit, clock, calls, responses, attempts, wiped, resets, restarts>>

ResetResponse(me) ==
    [ call |-> me.call, kind |-> "reset", status |-> 200,
      saveFailed |-> me.saveFailed, epoch |-> restarts ]

\* line 185, saveData(LOGS_FILE, []): the file is opened
ResetOpenLogs(p) ==
    /\ h[p].kind = "reset" /\ h[p].pc = "openLogs"
    /\ \E openFails \in FaultChoices :
        /\ fs' = [fs EXCEPT ![LOGS_FILE] = OpenForWrite(@, openFails)]
        /\ faults' = faults + (IF openFails THEN 1 ELSE 0)
        /\ IF openFails
           THEN /\ Respond(ResetResponse(
                        [h[p] EXCEPT !.saveFailed = @ \cup {LOGS_FILE}]))
                /\ h' = [h EXCEPT ![p] = Idle]
           ELSE /\ h' = [h EXCEPT ![p].pc = "writeLogs"]
                /\ UNCHANGED responses
    /\ UNCHANGED <<faultLimit, clock, calls, attempts, committed, wiped, resets, restarts>>

\* line 185: the text [] is written; then the confirmation (line 188)
ResetWriteLogs(p) ==
    /\ h[p].kind = "reset" /\ h[p].pc = "writeLogs"
    /\ \E writeFails \in FaultChoices :
        /\ fs' = [fs EXCEPT ![LOGS_FILE] = WriteText(@, <<>>, writeFails)]
        /\ faults' = faults + (IF writeFails THEN 1 ELSE 0)
        /\ committed' = IF Parses(fs'[LOGS_FILE]) /\ ~writeFails
                        THEN [committed EXCEPT ![LOGS_FILE] = <<>>]
                        ELSE committed
        /\ Respond(ResetResponse(
                [h[p] EXCEPT !.saveFailed =
                    IF writeFails THEN @ \cup {LOGS_FILE} ELSE @]))
        /\ h' = [h EXCEPT ![p] = Idle]
    /\ UNCHANGED <<faultLimit, clock, calls, attempts, wiped, resets, restarts>>

----------------------------------------------------------------------------
(* The reporting handlers *)

\* lines 74-81: hasWinner and winnerTime of GET /api/locations/:locationId
LocationView(winners, locationId) ==
    [ hasWinner |-> Truthy(winners, locationId),
      winnerTime |-> IF Truthy(winners, locationId)
                     THEN AccessTimeOf(winners, locationId)
                     ELSE Null ]

\* lines 154-160: every own entry with the catalog's entry beside it
WinnersView(winners) ==
    [ k \in DOMAIN winners |->
        [ winner |-> winners[k],
          locationInfo |-> IF k \in DOMAIN LOCATIONS THEN LOCATIONS[k] ELSE Undefined ] ]

\* the entries left in the log's order, oldest first
Unreversed(seq) == seq

RECURSIVE Reverse(_)
Reverse(seq) ==
    IF seq = <<>> THEN <<>> ELSE Append(Reverse(Tail(seq)), Head(seq))

\* logs.slice(-100)
Recent(logs) ==
    IF Len(logs) > RecentCap
    THEN SubSeq(logs, Len(logs) - RecentCap + 1, Len(logs))
    ELSE logs

\* lines 170-176: the last entries, newest first, each with the catalog's
\* entry beside it
LogsView(logs) ==
    LET recentLogs == Reverse(Recent(logs))
    IN  [ i \in DOMAIN recentLogs |->
            [ log |-> recentLogs[i],
              locationInfo |->
                IF recentLogs[i].locationId \in DOMAIN LOCATIONS
                THEN LOCATIONS[recentLogs[i].locationId]
                ELSE Undefined ] ]

\* GET /api/locations/:locationId, to its await (lines 66-73)
GetLocation(p, locationId) ==
    /\ FreeSlot(p)
    /\ calls' = calls + 1
    /\ IF ~Truthy(LOCATIONS, locationId)
       THEN /\ Respond([call |-> calls + 1, kind |-> "location",
                        locationId |-> locationId, status |-> 404])
            /\ h' = h
       ELSE /\ h' = [h EXCEPT ![p] = [Idle EXCEPT !.pc = "loadWinners",
                                                  !.call = calls + 1,
                                                  !.kind = "location",
                                                  !.locationId = locationId]]
            /\ UNCHANGED responses
    /\ UNCHANGED <<faultLimit, fs, clock, attempts, committed, wiped, faults, resets, restarts>>

\* lines 73-81: the winners document is read and the answer sent
GetLocationLoad(p) ==
    /\ h[p].kind = "location" /\ h[p].pc = "loadWinners"
    /\ \E readFails \in FaultChoices :
        /\ faults' = faults + (IF readFails THEN 1 ELSE 0)
        /\ LET view == LocationView(
                    loadData(fs[WINNERS_FILE], EmptyObject, readFails),
                    h[p].locationId)
           IN  Respond([call |-> h[p].call, kind |-> "location",
                        locationId |-> h[p].locationId, status |-> 200,
                        hasWinner |-> view.hasWinner,
                        winnerTime |-> view.winnerTime, epoch |-> restarts])
    /\ h' = [h EXCEPT ![p] = Idle]
    /\ UNCHANGED <<faultLimit, fs, clock, calls, attempts, committed, wiped, resets, restarts>>

\* GET /api/admin/winners, to its await (lines 150-151)
AdminWinners(p) ==
    /\ FreeSlot(p)
    /\ calls' = calls + 1
    /\ h' = [h EXCEPT ![p] = [Idle EXCEPT !.pc = "loadWinners",
                                          !.call = calls + 1,
                                          !.kind = "winners"]]
    /\ UNCHANGED <<faultLimit, fs, clock, responses, attempts, committed, wiped, faults,
                   resets, restarts>>

\* lines 151-162
AdminWinnersLoad(p) ==
    /\ h[p].kind = "winners" /\ h[p].pc = "loadWinners"
    /\ \E readFails \in FaultChoices :
        /\ faults' = faults + (IF readFails THEN 1 ELSE 0)
        /\ Respond([call |-> h[p].call, kind |-> "winners", status |-> 200,
                    body |-> WinnersView(
                        loadData(fs[WINNERS_FILE], EmptyObject, readFails)),
                    epoch |-> restarts])
    /\ h' = [h EXCEPT ![p] = Idle]
    /\ UNCHANGED <<faultLimit, fs, clock, calls, attempts, committed, wiped, resets, restarts>>

\* GET /api/admin/logs, to its await (lines 166-167)
AdminLogs(p) ==
    /\ FreeSlot(p)
    /\ calls' = calls + 1
    /\ h' = [h EXCEPT ![p] = [Idle EXCEPT !.pc = "loadLogs",
                                          !.call = calls + 1,
                                          !.kind = "logs"]]
    /\ UNCHANGED <<faultLimit, fs, clock, responses, attempts, committed, wiped, faults,
                   resets, restarts>>

\* AdminLogsLoad that also saves the entries it returns as the log
AdminLogsLoadTrimming(p) ==
    /\ h[p].kind = "logs" /\ h[p].pc = "loadLogs"
    /\ \E readFails \in FaultChoices :
        /\ faults' = faults + (IF readFails THEN 1 ELSE 0)
        /\ Respond([call |-> h[p].call, kind |-> "logs", status |-> 200,
                    body |-> LogsView(loadData(fs[LOGS_FILE], <<>>, readFails)),
                    epoch |-> restarts])
        /\ fs' = [fs EXCEPT ![LOGS_FILE] =
                    WriteText(Truncated,
                              Recent(loadData(fs[LOGS_FILE], <<>>, readFails)),
                              FALSE)]
    /\ h' = [h EXCEPT ![p] = Idle]
    /\ UNCHANGED <<faultLimit, clock, calls, attempts, committed, wiped, resets, restarts>>

\* lines 167-178
AdminLogsLoad(p) ==
    /\ h[p].kind = "logs" /\ h[p].pc = "loadLogs"
    /\ \E readFails \in FaultChoices :
        /\ faults' = faults + (IF readFails THEN 1 ELSE 0)
        /\ Respond([call |-> h[p].call, kind |-> "logs", status |-> 200,
                    body |-> LogsView(loadData(fs[LOGS_FILE], <<>>, readFails)),
                    epoch |-> restarts])
    /\ h' = [h EXCEPT ![p] = Idle]
    /\ UNCHANGED <<faultLimit, fs, clock, calls, attempts, committed, wiped, resets, restarts>>

\* StatsView counting, for each location, only the entries marked isWinner
StatsViewWinnersOnly(winners, logs) ==
    [ totalLocations |-> Cardinality(DOMAIN LOCATIONS),
      winnersCount |-> Cardinality(DOMAIN winners),
      totalParticipants |-> Len(logs),
      participantsByLocation |->
        [ locationId \in DOMAIN LOCATIONS |->
            [ name |-> LOCATIONS[locationId].name,
              count |-> Cardinality({ i \in DOMAIN logs :
                                        /\ logs[i].locationId = locationId
                                        /\ logs[i].isWinner }),
              hasWinner |-> Truthy(winners, locationId) ] ] ]

\* lines 200-214: the counts of GET /api/admin/stats
StatsView(winners, logs) ==
    [ totalLocations |-> Cardinality(DOMAIN LOCATIONS),
      winnersCount |-> Cardinality(DOMAIN winners),
      totalParticipants |-> Len(logs),
      participantsByLocation |->
        [ locationId \in DOMAIN LOCATIONS |->
            [ name |-> LOCATIONS[locationId].name,
              count |-> Cardinality({ i \in DOMAIN logs :
                                        logs[i].locationId = locationId }),
              hasWinner |-> Truthy(winners, locationId) ] ] ]

\* GET /api/admin/stats, to its first await (lines 196-197)
AdminStats(p) ==
    /\ FreeSlot(p)
    /\ calls' = calls + 1
    /\ h' = [h EXCEPT ![p] = [Idle EXCEPT !.pc = "loadWinners",
                                          !.call = calls + 1,
                                          !.kind = "stats"]]
    /\ UNCHANGED <<faultLimit, fs, clock, responses, attempts, committed, wiped, faults,
                   resets, restarts>>

\* line 197: the winners document is read
AdminStatsLoadWinners(p) ==
    /\ h[p].kind = "stats" /\ h[p].pc = "loadWinners"
    /\ \E readFails \in FaultChoices :
        /\ faults' = faults + (IF readFails THEN 1 ELSE 0)
        /\ h' = [h EXCEPT ![p].winners =
                                loadData(fs[WINNERS_FILE], EmptyObject, readFails),
                          ![p].pc = "loadLogs"]
    /\ UNCHANGED <<faultLimit, fs, clock, calls, responses, attempts, committed, wiped,
                   resets, restarts>>

\* lines 198-216: the log is read and the counts sent
AdminStatsLoadLogs(p) ==
    /\ h[p].kind = "stats" /\ h[p].pc = "loadLogs"
    /\ \E readFails \in FaultChoices :
        /\ faults' = faults + (IF readFails THEN 1 ELSE 0)
        /\ Respond([call |-> h[p].call, kind |-> "stats", status |-> 200,
                    body |-> StatsView(h[p].winners,
                                       loadData(fs[LOGS_FILE], <<>>, readFails)),
                    epoch |-> restarts])
    /\ h' = [h EXCEPT ![p] = Idle]
    /\ UNCHANGED <<faultLimit, fs, clock, calls, attempts, committed, wiped, resets, restarts>>

\* GET /api/locations (lines 61-63): the catalog, sent at once
GetLocations(p) ==
    /\ FreeSlot(p)
    /\ calls' = calls + 1
    /\ Respond([call |-> calls + 1, kind |-> "locations", status |-> 200,
                body |-> LOCATIONS, epoch |-> restarts])
    /\ UNCHANGED <<faultLimit, fs, h, clock, attempts, committed, wiped, faults, resets,
                   restarts>>

----------------------------------------------------------------------------
(* The process *)

\* the process ends and starts again: the handlers in flight are gone, the
\* files are what they were (startServer, lines 225-236, touches neither)
Restart ==
    /\ restarts < MaxRestarts
    /\ restarts' = restarts + 1
    /\ h' = [p \in Slots |-> Idle]
    /\ UNCHANGED <<faultLimit, fs, clock, calls, responses, attempts, committed, wiped,
                   faults, resets>>

\* a handler in flight resumes after its await
StepParticipate(p) ==
    \/ ParticipateLoadWinners(p)
    \/ ParticipateLoadLogs(p)
    \/ Adjudicate(p)
    \/ ParticipateOpenWinners(p)
    \/ ParticipateWriteWinners(p)
    \/ ParticipateOpenLogs(p)
    \/ ParticipateWriteLogs(p)

StepOther(p) ==
    \/ ResetOpenWinners(p)
    \/ ResetWriteWinners(p)
    \/ ResetOpenLogs(p)
    \/ ResetWriteLogs(p)
    \/ GetLocationLoad(p)
    \/ AdminWinnersLoad(p)
    \/ AdminLogsLoad(p)
    \/ AdminStatsLoadWinners(p)
    \/ AdminStatsLoadLogs(p)

\* a request arrives
Receive(p) ==
    \/ \E id \in RequestIds, at \in ClientTimes(calls + 1) : Participate(p, id, at)
    \/ Reset(p)
    \/ \E id \in RequestIds : GetLocation(p, id)
    \/ AdminWinners(p)
    \/ AdminLogs(p)
    \/ AdminStats(p)
    \/ GetLocations(p)

\* the catalog keys among the locationId values requests carry
ValidIds == RequestIds \cap DOMAIN LOCATIONS

ReceiveValid(p) ==
    \E id \in ValidIds, at \in ClientTimes(calls + 1) : Participate(p, id, at)

(* Spec: requests of every kind, handled concurrently, over a store whose
   operations all succeed. *)
Init == Start(0)

Next ==
    \/ \E p \in Slots : calls < MaxCalls /\ Receive(p)
    \/ \E p \in Slots : StepParticipate(p)
    \/ \E p \in Slots : StepOther(p)

Spec == Init /\ [][Next]_vars

(* SpecFail: requests of every kind, one at a time, over a store that lets
   MaxFaults operations fail, in a process that may restart. *)
InitFail == Start(MaxFaults)

NextFail ==
    \/ \E p \in Slots : calls < MaxCalls /\ Quiet /\ Receive(p)
    \/ \E p \in Slots : StepParticipate(p)
    \/ \E p \in Slots : StepOther(p)
    \/ Restart

SpecFail == InitFail /\ [][NextFail]_vars

(* SpecSeq: up to five more valid visits than the log keeps, one at a time,
   over a store that lets MaxFaults operations fail.  The run ends with the
   visit in which an operation failed. *)
SeqCalls == LogCap + 5

NextSeq ==
    \/ \E p \in Slots :
            calls < SeqCalls /\ Quiet /\ faults = 0 /\ ReceiveValid(p)
    \/ \E p \in Slots : StepParticipate(p)

SpecSeq == InitFail /\ [][NextSeq]_vars

(* SpecFull: the log already holds LogCap entries, written by LogCap visits
   of one location that came one at a time within one tick of the clock;
   then FullCalls more requests of every kind for that location, handled
   concurrently, over a store whose operations all succeed. *)
FullLocation == "gangnam"

FirstVisits ==
    [ i \in 1..LogCap |->
        [ id |-> 1, locationId |-> FullLocation,
          accessTime |-> ToISOString(ClientSkew + i), ip |-> i,
          timestamp |-> ToISOString(1) ] ]

FullLog == [ i \in 1..LogCap |-> LogEntry(FirstVisits[i], i = 1) ]

FullWinners == SetProp(EmptyObject, FullLocation, WinnerRecord(FirstVisits[1]))

FirstResponses ==
    { [ call |-> i, kind |-> "participate", locationId |-> FullLocation,
        status |-> 200, isWinner |-> (i = 1),
        accessTime |-> FirstVisits[i].accessTime,
        winnerTime |-> IF i = 1 THEN Null ELSE FirstVisits[1].accessTime,
        saveFailed |-> {}, epoch |-> 0 ] : i \in 1..LogCap }

InitFull ==
    /\ faultLimit = 0
    /\ fs = [f \in Files |->
                [state |-> "text",
                 text |-> JSONstringify(IF f = WINNERS_FILE THEN FullWinners
                                                            ELSE FullLog)]]
    /\ h = [p \in Slots |-> Idle]
    /\ clock = 1
    /\ calls = LogCap
    /\ responses = FirstResponses
    /\ attempts = FirstVisits
    /\ committed = [f \in Files |-> IF f = WINNERS_FILE THEN FullWinners ELSE FullLog]
    /\ wiped = {}
    /\ faults = 0
    /\ resets = 0
    /\ restarts = 0

ReceiveFull(p) ==
    \/ \E at \in ClientTimes(calls + 1) : Participate(p, FullLocation, at)
    \/ Reset(p)
    \/ GetLocation(p, FullLocation)
    \/ AdminWinners(p)
    \/ AdminLogs(p)
    \/ AdminStats(p)
    \/ GetLocations(p)

NextFull ==
    \/ \E p \in Slots : calls < LogCap + FullCalls /\ ReceiveFull(p)
    \/ \E p \in Slots : StepParticipate(p)
    \/ \E p \in Slots : StepOther(p)

SpecFull == InitFull /\ [][NextFull]_vars

----------------------------------------------------------------------------
(* What a reader of the store sees now *)

winnersNow == loadData(fs[WINNERS_FILE], EmptyObject, FALSE)
logsNow == loadData(fs[LOGS_FILE], <<>>, FALSE)

\* the answers of the participate calls for catalog locations
Verdicts ==
    {r \in responses : r.kind = "participate" /\ r.locationId \in DOMAIN LOCATIONS}

\* every request so far was a visit to a catalog location and is answered
OnlyVisitsAllAnswered ==
    /\ Quiet
    /\ responses = Verdicts
    /\ Cardinality(responses) = calls

\* no reset, no failed file operation, no restart so far
Undisturbed == resets = 0 /\ faults = 0 /\ restarts = 0

----------------------------------------------------------------------------
(* C1 *)

\* C1: when all the requests of an undisturbed run were visits to one
\* catalog location and all are answered, exactly one answer has
\* isWinner = true.
C1_ExactlyOneWinner ==
    \A L \in ValidIds :
        ( /\ Undisturbed
          /\ OnlyVisitsAllAnswered
          /\ calls >= 1
          /\ \A r \in responses : r.locationId = L )
        => Cardinality({r \in responses : r.isWinner}) = 1

----------------------------------------------------------------------------
(* C2 *)

\* C2: as long as no reset has been received, a record the committed
\* winners document holds for a location is in every later committed
\* winners document, unchanged.
C2_WriteOnce ==
    [][ resets' = 0 =>
          \A L \in DOMAIN committed[WINNERS_FILE] :
              /\ L \in DOMAIN committed'[WINNERS_FILE]
              /\ committed'[WINNERS_FILE][L] = committed[WINNERS_FILE][L] ]_vars

----------------------------------------------------------------------------
(* C3 *)

\* C3: when the two requests of an undisturbed run were first visits to two
\* different catalog locations and both are answered, both answers have
\* isWinner = true and the winners document holds a record for each.
C3_Independent ==
    \A ra, rb \in responses :
        ( /\ Undisturbed
          /\ OnlyVisitsAllAnswered
          /\ calls = 2
          /\ ra.locationId # rb.locationId )
        => /\ ra.isWinner /\ rb.isWinner
           /\ ra.locationId \in DOMAIN winnersNow
           /\ rb.locationId \in DOMAIN winnersNow

----------------------------------------------------------------------------
(* C4 *)

\* the store after reset and then the visit answered by r, both alone
AfterResetThenVisit(r) ==
    /\ DOMAIN winnersNow = {r.locationId}
    /\ winnersNow[r.locationId].ip = r.call
    /\ Len(logsNow) = 1
    /\ logsNow[1].ip = r.call
    /\ logsNow[1].isWinner

\* the store after the visit and then reset
AfterVisitThenReset == winnersNow = EmptyObject /\ logsNow = <<>>

\* both files hold a JSON text
StoreReadable == Parses(fs[WINNERS_FILE]) /\ Parses(fs[LOGS_FILE])

\* C4: (a) when the two requests of a run were a visit to a catalog location
\* and a reset, both are answered and both files hold a document, the store
\* is what one of the two serial orders leaves; (b) once the only reset is
\* answered, the store holds nothing of the visits that were answered before
\* the reset arrived.
C4_ResetSerialized ==
    /\ \A r \in Verdicts, rr \in responses :
            ( /\ faults = 0 /\ restarts = 0
              /\ Quiet /\ calls = 2
              /\ StoreReadable
              /\ rr.kind = "reset" )
            => /\ r.isWinner
               /\ AfterVisitThenReset \/ AfterResetThenVisit(r)
    /\ ( /\ faults = 0 /\ restarts = 0
         /\ resets = 1
         /\ \E rr \in responses : rr.kind = "reset" )
       => StoredIps \cap wiped = {}

----------------------------------------------------------------------------
(* C5 *)

\* the last request received was a reset, and it is answered
ResetJustAnswered ==
    /\ Quiet
    /\ \E rr \in responses : rr.kind = "reset" /\ rr.call = calls

\* C5: when no request is in flight and the last request received was a
\* reset, answered with its confirmation, every catalog location is reported
\* with hasWinner = false and winnerTime = null, and the winners and logs
\* views are empty (so that a second reset has nothing to change).
C5_ReadAfterReset ==
    ResetJustAnswered =>
        /\ \A id \in DOMAIN LOCATIONS :
                LocationView(winnersNow, id) =
                    [hasWinner |-> FALSE, winnerTime |-> Null]
        /\ WinnersView(winnersNow) = EmptyObject
        /\ LogsView(logsNow) = <<>>

----------------------------------------------------------------------------
(* C6 *)

\* C6: a participate or location request whose locationId is no key of the
\* catalog is answered 400 or 404, and the store holds no entry made for it.
C6_UnknownRejected ==
    /\ \A r \in responses :
            (r.kind \in {"participate", "location"}
                /\ r.locationId \notin DOMAIN LOCATIONS)
            => r.status = (IF r.kind = "participate" THEN 400 ELSE 404)
    /\ \A i \in DOMAIN logsNow : logsNow[i].locationId \in DOMAIN LOCATIONS
    /\ DOMAIN winnersNow \subseteq DOMAIN LOCATIONS

----------------------------------------------------------------------------
(* C7 *)

\* C7: when all the requests of an undisturbed run were visits to catalog
\* locations, no more than the log keeps, and all are answered, the log
\* holds exactly one entry for each, with the verdict that call was given.
C7_EveryVisitLogged ==
    ( /\ Undisturbed
      /\ OnlyVisitsAllAnswered
      /\ calls <= LogCap )
    => /\ Len(logsNow) = calls
       /\ \A r \in responses :
            /\ Cardinality({i \in DOMAIN logsNow : logsNow[i].ip = r.call}) = 1
            /\ \A i \in DOMAIN logsNow :
                    logsNow[i].ip = r.call => logsNow[i].isWinner = r.isWinner

----------------------------------------------------------------------------
(* C8 *)

\* C8: when a visit to a catalog location was answered isWinner = true, the
\* process has restarted since and no reset was received, the location is
\* reported with hasWinner = true and the winner's time.
C8_WinnerSurvivesRestart ==
    \A r \in Verdicts :
        (r.isWinner /\ r.epoch < restarts /\ resets = 0)
        => LocationView(winnersNow, r.locationId) =
                [hasWinner |-> TRUE, winnerTime |-> r.accessTime]

----------------------------------------------------------------------------
(* C9 *)

\* C9: a participate call whose write of the winners document failed is not
\* answered with success.
C9_FailureSurfaced ==
    \A r \in Verdicts : ~(r.status = 200 /\ WINNERS_FILE \in r.saveFailed)

----------------------------------------------------------------------------
(* C10 *)

Min(a, b) == IF a < b THEN a ELSE b

\* the verdict given to a call
VerdictOf(call) == (CHOOSE r \in responses : r.call = call).isWinner

\* the entries of the last Min(calls, LogCap) visits, in arrival order
LastVisits ==
    LET kept == Min(calls, LogCap)
    IN  [ i \in 1..kept |->
            LogEntry(attempts[calls - kept + i], VerdictOf(calls - kept + i)) ]

\* the log after the visits of a run of SpecSeq, all answered
LogIsLastVisits ==
    /\ Len(attempts) = calls
    /\ \A k \in 1..calls : attempts[k].ip = k
    /\ Parses(fs[LOGS_FILE])
    /\ logsNow = LastVisits

----------------------------------------------------------------------------
(* C11 *)

\* C11: in every reachable state, whatever the interleaving of participate,
\* reset and reporting calls, the persisted log holds at most LogCap
\* entries; so does the log last committed and the log every handler is
\* about to write.
C11_LogNeverExceedsCap ==
    /\ Len(logsNow) <= LogCap
    /\ Len(committed[LOGS_FILE]) <= LogCap
    /\ \A p \in Slots : Len(h[p].logs) <= LogCap

\* a visit that came to a full log is the newest entry of the persisted log,
\* which still holds LogCap entries, while another request is in flight
C11_Witness ==
    /\ resets = 0
    /\ Len(logsNow) = LogCap
    /\ logsNow[LogCap].ip > LogCap
    /\ \E p \in Slots : InFlight(p)

----------------------------------------------------------------------------
(* C12 *)

\* the locations the visits of the run went to, and the visits each got
Visited == { attempts[i].locationId : i \in DOMAIN attempts }
CallsFor(L) == Cardinality({ i \in DOMAIN attempts : attempts[i].locationId = L })

\* what GET /api/admin/stats answers now
statsNow == StatsView(winnersNow, logsNow)

StatsMatchVisits ==
    /\ statsNow.winnersCount = Cardinality(Visited)
    /\ statsNow.totalParticipants = calls
    /\ \A L \in DOMAIN LOCATIONS :
        /\ statsNow.participantsByLocation[L].count = CallsFor(L)
        /\ statsNow.participantsByLocation[L].hasWinner = (CallsFor(L) >= 1)

----------------------------------------------------------------------------
(* C13 *)

\* the answers to valid visits sent in this step, each with the handler
\* that sent it
VerdictSent(p, r) ==
    /\ r \in responses' \ responses
    /\ r.kind = "participate" /\ r.status = 200
    /\ r.locationId \in DOMAIN LOCATIONS
    /\ h[p].call = r.call

\* C13 as stated: a visit answered isWinner = false gets as winnerTime the
\* server's timestamp of the record stored for its location, a visit
\* answered isWinner = true gets null.
C13_WinnerTimeIsServerTime ==
    [][ \A p \in Slots : \A r \in responses' \ responses :
          VerdictSent(p, r) =>
            IF r.isWinner
            THEN r.winnerTime = Null
            ELSE /\ r.locationId \in DOMAIN winnersNow
                 /\ r.winnerTime = winnersNow[r.locationId].timestamp ]_vars

\* C13, amended: a visit answered isWinner = false gets as winnerTime the
\* time the winner's client reported (accessTime), as the record the call
\* read for its location carries it, and not that record's server timestamp;
\* a visit answered isWinner = true gets null.
C13_WinnerTimeIsClientTime ==
    [][ \A p \in Slots : \A r \in responses' \ responses :
          VerdictSent(p, r) =>
            IF r.isWinner
            THEN r.winnerTime = Null
            ELSE /\ r.locationId \in DOMAIN h[p].winners
                 /\ r.winnerTime = h[p].winners[r.locationId].accessTime
                 /\ r.winnerTime # h[p].winners[r.locationId].timestamp ]_vars

\* a visit that came after the log was full was answered isWinner = false
\* with the time another visit's client reported, which is not that visit's
\* server timestamp
C13_Witness ==
    \E r \in Verdicts : \E i \in DOMAIN attempts :
        /\ r.call > LogCap /\ ~r.isWinner
        /\ attempts[i].locationId = r.locationId
        /\ attempts[i].ip # r.call
        /\ r.winnerTime = attempts[i].accessTime
        /\ r.winnerTime # attempts[i].timestamp

----------------------------------------------------------------------------
(* C14 *)

\* the kinds of the five reporting requests
ReportingKinds == {"locations", "location", "winners", "logs", "stats"}

\* this step is a step of a reporting request: it is received, it resumes
\* after an await, or it is answered
ReportingStep ==
    \/ \E p \in Slots :
            /\ h'[p] # h[p]
            /\ h[p].kind \in ReportingKinds \/ h'[p].kind \in ReportingKinds
    \/ \E r \in responses' \ responses : r.kind \in ReportingKinds

\* C14: no step of GET /api/locations, GET /api/locations/:locationId,
\* GET /api/admin/winners, GET /api/admin/logs or GET /api/admin/stats
\* changes the winners file or the log file, whatever participate and reset
\* calls are in flight beside it.
C14_ReportingReadOnly ==
    [][ ReportingStep => (fs' = fs /\ committed' = committed) ]_vars

\* a reporting request that came after a visit or a reset is answered, and
\* that visit or reset is between its open and its write of a file
C14_Witness ==
    \E r \in responses : \E p \in Slots :
        /\ r.kind \in ReportingKinds /\ r.status = 200
        /\ h[p].kind \in {"participate", "reset"}
        /\ h[p].pc \in {"writeWinners", "writeLogs"}
        /\ r.call > h[p].call

----------------------------------------------------------------------------
(* C15 *)

\* what GET /api/admin/logs answers now
logsViewNow == LogsView(logsNow)

\* C15: for the persisted log of length n, GET /api/admin/logs returns
\* min(n, RecentCap) entries: the i-th returned is the i-th from the end of
\* the log, and carries the catalog's entry for its locationId (nothing, if
\* the locationId is no key of the catalog).
C15_LogsView ==
    LET n == Len(logsNow)
        m == Min(n, RecentCap)
    IN  /\ DOMAIN logsViewNow = 1..m
        /\ \A i \in 1..m :
            LET entry == logsNow[n + 1 - i]
            IN  /\ logsViewNow[i].log = entry
                /\ entry.locationId \in DOMAIN LOCATIONS
                        => logsViewNow[i].locationInfo = LOCATIONS[entry.locationId]
                /\ entry.locationId \notin DOMAIN LOCATIONS
                        => logsViewNow[i].locationInfo = Undefined

\* the log holds more than RecentCap entries, of two locations; the newest
\* is returned first and the oldest is not returned
C15_Witness ==
    /\ Quiet
    /\ Len(logsNow) > RecentCap
    /\ DOMAIN logsViewNow = 1..RecentCap
    /\ logsViewNow[1].log.ip = calls
    /\ logsViewNow[1].log.locationId # logsViewNow[2].log.locationId
    /\ logsViewNow[1].locationInfo # logsViewNow[2].locationInfo
    /\ \A i \in DOMAIN logsViewNow : logsViewNow[i].log # logsNow[1]

----------------------------------------------------------------------------
(* C16 *)

\* handler p resumes from its await of loadData(WINNERS_FILE) in this step,
\* or of loadData(LOGS_FILE), and keeps what it loaded
LoadsWinners(p) ==
    /\ h[p].kind \in {"participate", "stats"}
    /\ h[p].pc = "loadWinners" /\ h'[p].pc = "loadLogs"
LoadsLogs(p) ==
    /\ h[p].kind = "participate"
    /\ h[p].pc = "loadLogs" /\ h'[p].pc = "adjudicate"

\* C16 as stated: what a handler loads is the document last committed (the
\* empty default before any commit), also while another handler writes the
\* file; so a visit finds every record committed in what it loads.
C16_ReadsLastCommitted ==
    [][ \A p \in Slots :
          /\ LoadsWinners(p) => h'[p].winners = committed[WINNERS_FILE]
          /\ LoadsLogs(p) => h'[p].logs = committed[LOGS_FILE] ]_vars

----------------------------------------------------------------------------
(* C17 *)

\* C17 as stated: with the requests handled one at a time, and before any
\* reset or restart, the visit answered isWinner = true for a location is
\* the first visit of that location, and every later one is answered
\* isWinner = false.
C17_FirstComeFirstServed ==
    (resets = 0 /\ restarts = 0) =>
        \A r \in Verdicts :
            r.isWinner = (\A q \in Verdicts :
                            q.locationId = r.locationId => q.call >= r.call)

----------------------------------------------------------------------------
(* C18 *)

\* C18: when the open or the write of the log file fails in a visit, the
\* step leaves the winners file and the winners document committed as they
\* were; and if that document holds the visit's own record, the visit is
\* answered isWinner = true and the record is what a reader then finds.
C18_LogFailureKeepsWinner ==
    [][ \A p \in Slots : \A r \in responses' \ responses :
          (VerdictSent(p, r) /\ LOGS_FILE \in r.saveFailed) =>
            /\ fs'[WINNERS_FILE] = fs[WINNERS_FILE]
            /\ committed'[WINNERS_FILE] = committed[WINNERS_FILE]
            /\ \A L \in DOMAIN committed[WINNERS_FILE] :
                    (L = r.locationId /\ committed[WINNERS_FILE][L].ip = r.call) =>
                        /\ r.isWinner
                        /\ L \in DOMAIN winnersNow'
                        /\ winnersNow'[L] = committed[WINNERS_FILE][L] ]_vars

\* a visit whose record was committed and whose log write failed is
\* answered isWinner = true, and its record is in the winners file
C18_Witness ==
    \E r \in Verdicts :
        /\ r.isWinner /\ r.saveFailed = {LOGS_FILE}
        /\ r.locationId \in DOMAIN winnersNow
        /\ winnersNow[r.locationId].ip = r.call
        /\ \A i \in DOMAIN logsNow : logsNow[i].ip # r.call

----------------------------------------------------------------------------
(* C19 *)

\* C19 as stated: the ids of the attempts strictly increase in the order
\* the attempts are built, so no two attempts carry the same id.
C19_IdsIncrease ==
    \A i, j \in DOMAIN attempts : i < j => attempts[i].id < attempts[j].id

----------------------------------------------------------------------------
(* C20 *)

\* every key of the winners document is a catalog key and holds the record
\* of that location, marked winner
WinnersReferToCatalog ==
    \A k \in DOMAIN winnersNow :
        /\ k \in DOMAIN LOCATIONS
        /\ winnersNow[k].locationId = k
        /\ winnersNow[k].winner = TRUE

\* every log entry is of a catalog location
LogRefersToCatalog ==
    \A i \in DOMAIN logsNow : logsNow[i].locationId \in DOMAIN LOCATIONS

\* the stats count no more winners than locations, and as many as the
\* locations they report with hasWinner
StatsCountsAgree ==
    /\ statsNow.winnersCount <= statsNow.totalLocations
    /\ statsNow.winnersCount =
            Cardinality({ L \in DOMAIN LOCATIONS :
                            statsNow.participantsByLocation[L].hasWinner })

\* C20 as stated: in every reachable state the winners document and the log
\* refer to catalog locations only, each record under its own location and
\* marked winner, and the counts of the stats agree.
C20_ReferentialIntegrity ==
    WinnersReferToCatalog /\ LogRefersToCatalog /\ StatsCountsAgree

====
